---- MODULE Spec2Model ----
(***************************************************************************)
(* Model of the capture worker (parse_packets_loop) folding packets into   *)
(* the shared InfoTraffic aggregator under the capture-epoch cancellation  *)
(* protocol, and of the notification engine (notify_and_log, bar).         *)
(***************************************************************************)
EXTENDS Integers, Sequences, FiniteSets, TLC

\* ------------------------------------------------------------------ bounds
\* successful packet reads over all workers
MaxPackets == 2
\* calls of notify_and_log in one behaviour
MaxTicks == 2
\* largest growth of one counter between two notification ticks
MaxDelta == 2

\* ------------------------------------------------------ program constants
\* u16 capture id wraps at 2^16
CaptureIdModulus == 65536
\* capacity of the notification log
LogCapacity == 30
\* addresses longer than this are flagged very_long_address
LongAddressLen == 25

\* ----------------------------------------------------------------- options
None == <<>>
Some(v) == <<v>>
is_some(o) == o # None
unwrap(o) == o[1]

\* ------------------------------------------------------------------ inputs
Workers == {"w1", "w2"}

Me == "10.0.0.5"
Me6 == "fe80::1"
Peer == "203.0.113.9"
Peer6 == "2001:db8:85a3:8d3:1319:8a2e:370:7348"
Mcast == "224.0.0.251"
Bcast == "255.255.255.255"

my_interface_addresses == {Me, Me6}

IpHeader(v, s, d, n) ==
    [version |-> v, source |-> s, destination |-> d, payload_len |-> n]
TransportHeader(p, sp, dp) ==
    [protocol |-> p, source_port |-> sp, destination_port |-> dp]
Frame(ok, ip, tr) == [eth_ok |-> ok, ip |-> ip, transport |-> tr]

\* the frames the capture source may deliver: a malformed frame, a frame with
\* no IP header, an IP packet with no TCP/UDP header, and one connection of
\* each direction (outgoing, incoming, multicast, broadcast, other)
Frames ==
    { Frame(FALSE, None, None),
      Frame(TRUE, None, None),
      Frame(TRUE, Some(IpHeader("IPv4", Me, Peer, 2)), None),
      Frame(TRUE, Some(IpHeader("IPv4", Me, Peer, 3)),
                  Some(TransportHeader("TCP", 51000, 443))),
      Frame(TRUE, Some(IpHeader("IPv4", Peer, Me, 2)),
                  Some(TransportHeader("UDP", 53, 53))),
      Frame(TRUE, Some(IpHeader("IPv6", Peer6, Mcast, 1)),
                  Some(TransportHeader("UDP", 5353, 5353))),
      Frame(TRUE, Some(IpHeader("IPv4", Peer, Bcast, 1)),
                  Some(TransportHeader("UDP", 68, 67))),
      Frame(TRUE, Some(IpHeader("IPv6", Peer6, Peer, 2)),
                  Some(TransportHeader("TCP", 51000, 22))) }

Filters(ip, tr, app) == [ip |-> ip, transport |-> tr, application |-> app]

\* the filter settings a capture may be started with
FilterChoices ==
    { Filters("Other", "Other", "Other"),
      Filters("IPv4", "TCP", "HTTPS") }

\* ------------------------------------------------------- header classifier
from_port_to_application_protocol(port) ==
    CASE port = 22 -> "SSH"
      [] port = 53 -> "DNS"
      [] port = 67 -> "DHCP"
      [] port = 68 -> "DHCP"
      [] port = 443 -> "HTTPS"
      [] port = 5353 -> "mDNS"
      [] OTHER -> "Other"

\* l is the record of the worker's locals
analyze_network_header(ip, l) ==
    IF ip = None
    THEN [l EXCEPT !.skip_packet = TRUE]
    ELSE [l EXCEPT !.network_protocol = unwrap(ip).version,
                   !.address1 = unwrap(ip).source,
                   !.address2 = unwrap(ip).destination,
                   !.exchanged_bytes = unwrap(ip).payload_len]

analyze_transport_header(tr, l) ==
    IF tr = None
    THEN [l EXCEPT !.skip_packet = TRUE]
    ELSE LET p1 == unwrap(tr).source_port
             p2 == unwrap(tr).destination_port
             a1 == from_port_to_application_protocol(p1)
         IN  [l EXCEPT !.port1 = p1,
                       !.port2 = p2,
                       !.transport_protocol = unwrap(tr).protocol,
                       !.application_protocol =
                           IF a1 = "Other"
                           THEN from_port_to_application_protocol(p2)
                           ELSE a1]

is_multicast_address(a) == a = Mcast
is_broadcast_address(a) == a = Bcast

\* get_traffic_type with the multicast and broadcast tests before locality
get_traffic_type_multicast_first(address1, address2) ==
    IF is_multicast_address(address2) THEN "Multicast"
    ELSE IF is_broadcast_address(address2) THEN "Broadcast"
    ELSE IF address1 \in my_interface_addresses THEN "Outgoing"
    ELSE IF address2 \in my_interface_addresses THEN "Incoming"
    ELSE "Other"

\* the if / else if chain that sets traffic_type (Other when no test matches)
get_traffic_type(address1, address2) ==
    IF address1 \in my_interface_addresses THEN "Outgoing"
    ELSE IF address2 \in my_interface_addresses THEN "Incoming"
    ELSE IF is_multicast_address(address2) THEN "Multicast"
    ELSE IF is_broadcast_address(address2) THEN "Broadcast"
    ELSE "Other"

AddressPortPair(a1, p1, a2, p2, tp) ==
    [address1 |-> a1, port1 |-> p1, address2 |-> a2, port2 |-> p2,
     trans_protocol |-> tp]

\* passes_filters with || between the three layers
passes_filters_any(f, network_protocol, transport_protocol, application_protocol) ==
    \/ (f.ip = "Other" \/ f.ip = network_protocol)
    \/ (f.transport = "Other" \/ f.transport = transport_protocol)
    \/ (f.application = "Other" \/ f.application = application_protocol)

\* the condition of the if that guards the first critical section
passes_filters(f, network_protocol, transport_protocol, application_protocol) ==
    /\ (f.ip = "Other" \/ f.ip = network_protocol)
    /\ (f.transport = "Other" \/ f.transport = transport_protocol)
    /\ (f.application = "Other" \/ f.application = application_protocol)

\* ---------------------------------------------------------- geolocation
get_country_code(traffic_type, key) ==
    LET address_to_lookup ==
            IF traffic_type = "Outgoing" THEN key.address2 ELSE key.address1
    IN  CASE address_to_lookup = Peer -> "US"
          [] address_to_lookup = Peer6 -> "DE"
          [] OTHER -> ""

\* ------------------------------------------------------------------- state
VARIABLES
    current_capture_id,   \* the shared capture epoch
    info_traffic,         \* the shared aggregator
    pc,                   \* each worker's position in parse_packets_loop
    capture_id,           \* the epoch each worker took at start
    loc,                  \* each worker's locals
    clock,                \* the wall clock: readings of Local::now() so far
    reads,                \* packets delivered so far
    country_lookups,      \* keys get_country_code was called with, in order
    runtime_data,         \* the caller's RunTimeData
    notifications,        \* the caller's Notifications, passed to each tick
    ticks,                \* calls of notify_and_log so far
    pushed,               \* entries pushed by the last notify_and_log, in order
    played                \* sounds played by the last notify_and_log, in order

vars == <<current_capture_id, info_traffic, pc, capture_id, loc, clock, reads,
          country_lookups, runtime_data, notifications, ticks, pushed, played>>

capture_vars == <<current_capture_id, info_traffic, pc, capture_id, loc, clock,
                  reads, country_lookups>>
notify_vars == <<runtime_data, notifications, ticks, pushed, played>>

\* --------------------------------------------------------------- aggregator
InfoTrafficNew ==
    [map |-> <<>>,
     all_packets |-> 0,
     all_bytes |-> 0,
     tot_sent_packets |-> 0,
     tot_sent_bytes |-> 0,
     tot_received_packets |-> 0,
     tot_received_bytes |-> 0,
     app_protocols |-> <<>>,
     addresses_last_interval |-> {},
     favorites_last_interval |-> {}]

\* 0-based position of key in the insertion-ordered map, None when absent
get_index_of(map, key) ==
    IF \E i \in 1..Len(map) : map[i].key = key
    THEN Some((CHOOSE i \in 1..Len(map) : map[i].key = key) - 1)
    ELSE None

unwrap_or(o, d) == IF o = None THEN d ELSE unwrap(o)

\* country_calls without the first-occurrence test
country_calls_every_packet(map, key) == <<key>>

\* the keys get_country_code is called with while one packet is folded in:
\* the packet's key on its first occurrence, none otherwise
country_calls(map, key) ==
    IF unwrap_or(get_index_of(map, key), Len(map)) = Len(map)
    THEN <<key>>
    ELSE <<>>

\* InfoAddressPortPair with the index taken after the insertion
InfoAddressPortPair_len_after(l, country, index) ==
    [transmitted_bytes |-> l.exchanged_bytes,
     transmitted_packets |-> 1,
     initial_timestamp |-> l.now,
     final_timestamp |-> l.now,
     app_protocol |-> l.application_protocol,
     very_long_address |-> l.very_long_address,
     traffic_type |-> l.traffic_type,
     country |-> country,
     index |-> index + 1,
     is_favorite |-> FALSE]

\* the record or_insert stores for a key seen for the first time
InfoAddressPortPair(l, country, index) ==
    [transmitted_bytes |-> l.exchanged_bytes,
     transmitted_packets |-> 1,
     initial_timestamp |-> l.now,
     final_timestamp |-> l.now,
     app_protocol |-> l.application_protocol,
     very_long_address |-> l.very_long_address,
     traffic_type |-> l.traffic_type,
     country |-> country,
     index |-> index,
     is_favorite |-> FALSE]

\* fold_connection that marks the map length after the insertion as touched
fold_connection_mark_len(it, l) ==
    LET len == Len(it.map)
        index == unwrap_or(get_index_of(it.map, l.key), len)
        country == IF country_calls(it.map, l.key) # <<>>
                   THEN get_country_code(l.traffic_type, l.key)
                   ELSE ""
        is_already_featured == index \in it.favorites_last_interval
        update_favorites_featured ==
            /\ index # len
            /\ it.map[index + 1].info.is_favorite
            /\ ~is_already_featured
        new_map ==
            IF index # len
            THEN [it.map EXCEPT
                    ![index + 1].info.transmitted_bytes = @ + l.exchanged_bytes,
                    ![index + 1].info.transmitted_packets = @ + 1,
                    ![index + 1].info.final_timestamp = l.now]
            ELSE Append(it.map,
                    [key |-> l.key,
                     info |-> InfoAddressPortPair(l, country, index)])
    IN  [it EXCEPT
            !.map = new_map,
            !.addresses_last_interval = @ \cup {Len(new_map)},
            !.favorites_last_interval =
                IF update_favorites_featured THEN @ \cup {index} ELSE @]

\* fold_connection that features every re-touched record, favorite or not
fold_connection_feature_any(it, l) ==
    LET len == Len(it.map)
        index == unwrap_or(get_index_of(it.map, l.key), len)
        country == IF country_calls(it.map, l.key) # <<>>
                   THEN get_country_code(l.traffic_type, l.key)
                   ELSE ""
        is_already_featured == index \in it.favorites_last_interval
        update_favorites_featured ==
            /\ index # len
            /\ ~is_already_featured
        new_map ==
            IF index # len
            THEN [it.map EXCEPT
                    ![index + 1].info.transmitted_bytes = @ + l.exchanged_bytes,
                    ![index + 1].info.transmitted_packets = @ + 1,
                    ![index + 1].info.final_timestamp = l.now]
            ELSE Append(it.map,
                    [key |-> l.key,
                     info |-> InfoAddressPortPair(l, country, index)])
    IN  [it EXCEPT
            !.map = new_map,
            !.addresses_last_interval = @ \cup {index},
            !.favorites_last_interval =
                IF update_favorites_featured THEN @ \cup {index} ELSE @]

\* first critical section: look the key up or insert it, mark the index
fold_connection(it, l) ==
    LET len == Len(it.map)
        index == unwrap_or(get_index_of(it.map, l.key), len)
        country == IF country_calls(it.map, l.key) # <<>>
                   THEN get_country_code(l.traffic_type, l.key)
                   ELSE ""
        is_already_featured == index \in it.favorites_last_interval
        update_favorites_featured ==
            /\ index # len
            /\ it.map[index + 1].info.is_favorite
            /\ ~is_already_featured
        new_map ==
            IF index # len
            THEN [it.map EXCEPT
                    ![index + 1].info.transmitted_bytes = @ + l.exchanged_bytes,
                    ![index + 1].info.transmitted_packets = @ + 1,
                    ![index + 1].info.final_timestamp = l.now]
            ELSE Append(it.map,
                    [key |-> l.key,
                     info |-> InfoAddressPortPair(l, country, index)])
    IN  [it EXCEPT
            !.map = new_map,
            !.addresses_last_interval = @ \cup {index},
            !.favorites_last_interval =
                IF update_favorites_featured THEN @ \cup {index} ELSE @]

\* count_app_protocol with or_insert(0)
count_app_protocol_insert_zero(ap, p) ==
    IF p \in DOMAIN ap THEN [ap EXCEPT ![p] = @ + 1] ELSE ap @@ (p :> 0)

\* app_protocols.entry(p).and_modify(|n| *n += 1).or_insert(1)
count_app_protocol(ap, p) ==
    IF p \in DOMAIN ap THEN [ap EXCEPT ![p] = @ + 1] ELSE ap @@ (p :> 1)

\* fold_totals with the global counters inside the reported_packet test
fold_totals_reported_only(it, l) ==
    IF ~l.reported_packet THEN it
    ELSE LET histo == [it EXCEPT !.all_packets = @ + 1,
                                 !.all_bytes = @ + l.exchanged_bytes,
                                 !.app_protocols =
                                    count_app_protocol(@, l.application_protocol)]
         IN  IF l.traffic_type = "Outgoing"
             THEN [histo EXCEPT !.tot_sent_packets = @ + 1,
                                !.tot_sent_bytes = @ + l.exchanged_bytes]
             ELSE [histo EXCEPT !.tot_received_packets = @ + 1,
                                !.tot_received_bytes = @ + l.exchanged_bytes]

\* fold_totals with only Incoming packets counted as received
fold_totals_incoming_received(it, l) ==
    LET counted == [it EXCEPT !.all_packets = @ + 1,
                              !.all_bytes = @ + l.exchanged_bytes]
    IN  IF ~l.reported_packet THEN counted
        ELSE LET histo == [counted EXCEPT !.app_protocols =
                              count_app_protocol(@, l.application_protocol)]
             IN  IF l.traffic_type # "Incoming"
                 THEN [histo EXCEPT !.tot_sent_packets = @ + 1,
                                    !.tot_sent_bytes = @ + l.exchanged_bytes]
                 ELSE [histo EXCEPT !.tot_received_packets = @ + 1,
                                    !.tot_received_bytes = @ + l.exchanged_bytes]

\* second critical section: the global counters
fold_totals(it, l) ==
    LET counted == [it EXCEPT !.all_packets = @ + 1,
                              !.all_bytes = @ + l.exchanged_bytes]
    IN  IF ~l.reported_packet THEN counted
        ELSE LET histo == [counted EXCEPT !.app_protocols =
                              count_app_protocol(@, l.application_protocol)]
             IN  IF l.traffic_type = "Outgoing"
                 THEN [histo EXCEPT !.tot_sent_packets = @ + 1,
                                    !.tot_sent_bytes = @ + l.exchanged_bytes]
                 ELSE [histo EXCEPT !.tot_received_packets = @ + 1,
                                    !.tot_received_bytes = @ + l.exchanged_bytes]

\* ------------------------------------------------------------ worker locals
NoKey == AddressPortPair("", 0, "", 0, "Other")
NoFrame == Frame(FALSE, None, None)

LocalsNew ==
    [filters |-> Filters("Other", "Other", "Other"),
     packet |-> NoFrame,
     port1 |-> 0,
     port2 |-> 0,
     exchanged_bytes |-> 0,
     network_protocol |-> "Other",
     transport_protocol |-> "Other",
     application_protocol |-> "Other",
     traffic_type |-> "Other",
     skip_packet |-> FALSE,
     reported_packet |-> FALSE,
     address1 |-> "",
     address2 |-> "",
     key |-> NoKey,
     very_long_address |-> FALSE,
     now |-> 0]

\* the values the per-packet locals are given at the top of each iteration;
\* port1, port2 and exchanged_bytes live outside the loop and keep theirs
reset_locals(l) ==
    [l EXCEPT !.packet = NoFrame,
              !.network_protocol = "Other",
              !.transport_protocol = "Other",
              !.application_protocol = "Other",
              !.traffic_type = "Other",
              !.skip_packet = FALSE,
              !.reported_packet = FALSE,
              !.address1 = "",
              !.address2 = "",
              !.key = NoKey,
              !.very_long_address = FALSE,
              !.now = 0]

RunTimeDataNew ==
    [tot_sent_packets |-> 0, tot_sent_packets_prev |-> 0,
     tot_received_packets |-> 0, tot_received_packets_prev |-> 0,
     tot_sent_bytes |-> 0, tot_sent_bytes_prev |-> 0,
     tot_received_bytes |-> 0, tot_received_bytes_prev |-> 0,
     favorites_last_interval |-> {},
     logged_notifications |-> <<>>]

\* ---------------------------------------------------- notification inputs
PacketsNotification(threshold, sound, previous_threshold) ==
    [threshold |-> threshold, sound |-> sound,
     previous_threshold |-> previous_threshold]

BytesNotification(threshold, byte_multiple, sound, previous_threshold) ==
    [threshold |-> threshold, byte_multiple |-> byte_multiple, sound |-> sound,
     previous_threshold |-> previous_threshold]

FavoriteNotification(notify_on_favorite, sound) ==
    [notify_on_favorite |-> notify_on_favorite, sound |-> sound]

\* (threshold, previous_threshold) pairs of one alert kind
ThresholdChoices == {<<None, 3>>, <<Some(1), 3>>}

NotificationChoices ==
    { [packets_notification |-> PacketsNotification(pt[1], ps, pt[2]),
       bytes_notification |-> BytesNotification(bt[1], "KB", bs, bt[2]),
       favorite_notification |-> FavoriteNotification(fn, fs),
       volume |-> 60] :
         pt \in ThresholdChoices, ps \in {"None", "Gulp"},
         bt \in ThresholdChoices, bs \in {"None", "Pop"},
         fn \in BOOLEAN, fs \in {"None", "Swhoosh"} }

\* Notifications::default(): no threshold, favorites not notified
DefaultNotifications ==
    [packets_notification |-> PacketsNotification(None, "Gulp", 3),
     bytes_notification |-> BytesNotification(None, "KB", "Pop", 3),
     favorite_notification |-> FavoriteNotification(FALSE, "Swhoosh"),
     volume |-> 60]

Init ==
    /\ current_capture_id = 0
    /\ info_traffic = InfoTrafficNew
    /\ pc = [w \in Workers |-> "idle"]
    /\ capture_id = [w \in Workers |-> 0]
    /\ loc = [w \in Workers |-> LocalsNew]
    /\ clock = 1
    /\ reads = 0
    /\ country_lookups = <<>>
    /\ runtime_data = RunTimeDataNew
    /\ notifications = DefaultNotifications
    /\ ticks = 0
    /\ pushed = <<>>
    /\ played = <<>>

\* ------------------------------------------------------- capture controller
\* a new capture session: the epoch is bumped and a worker is spawned
StartCapture(w, f) ==
    /\ pc[w] = "idle"
    /\ current_capture_id' = (current_capture_id + 1) % CaptureIdModulus
    /\ loc' = [loc EXCEPT ![w] = [LocalsNew EXCEPT !.filters = f]]
    /\ pc' = [pc EXCEPT ![w] = "start"]
    /\ UNCHANGED <<info_traffic, capture_id, clock, reads, country_lookups>>
    /\ UNCHANGED notify_vars

\* the presentation layer marks or unmarks a connection as favorite
AddOrRemoveFavorite(index, add) ==
    /\ index < Len(info_traffic.map)
    /\ info_traffic.map[index + 1].info.is_favorite # add
    /\ info_traffic' =
          [info_traffic EXCEPT !.map[index + 1].info.is_favorite = add]
    /\ UNCHANGED <<current_capture_id, pc, capture_id, loc, clock, reads,
                   country_lookups>>
    /\ UNCHANGED notify_vars

\* ------------------------------------------------------- parse_packets_loop
\* let capture_id = *current_capture_id.lock().unwrap();
ReadCaptureId(w) ==
    /\ pc[w] = "start"
    /\ capture_id' = [capture_id EXCEPT ![w] = current_capture_id]
    /\ pc' = [pc EXCEPT ![w] = "read"]
    /\ UNCHANGED <<current_capture_id, info_traffic, loc, clock, reads,
                   country_lookups>>
    /\ UNCHANGED notify_vars

\* cap.next_packet() returns Err
NextPacketErr(w) ==
    /\ pc[w] = "read"
    /\ pc' = [pc EXCEPT ![w] = "check_err"]
    /\ UNCHANGED <<current_capture_id, info_traffic, capture_id, loc, clock,
                   reads, country_lookups>>
    /\ UNCHANGED notify_vars

\* CheckAfterErr that retries the read without looking at the epoch
CheckAfterErr_continue(w) ==
    /\ pc[w] = "check_err"
    /\ pc' = [pc EXCEPT ![w] = "read"]
    /\ UNCHANGED <<current_capture_id, info_traffic, capture_id, loc, clock,
                   reads, country_lookups>>
    /\ UNCHANGED notify_vars

\* the epoch check of the Err arm
CheckAfterErr(w) ==
    /\ pc[w] = "check_err"
    /\ pc' = [pc EXCEPT ![w] =
                IF current_capture_id # capture_id[w] THEN "done" ELSE "read"]
    /\ UNCHANGED <<current_capture_id, info_traffic, capture_id, loc, clock,
                   reads, country_lookups>>
    /\ UNCHANGED notify_vars

\* cap.next_packet() returns Ok(packet)
NextPacketOk(w, packet) ==
    /\ pc[w] = "read"
    /\ reads < MaxPackets
    /\ reads' = reads + 1
    /\ loc' = [loc EXCEPT ![w].packet = packet]
    /\ pc' = [pc EXCEPT ![w] = "check_ok"]
    /\ UNCHANGED <<current_capture_id, info_traffic, capture_id, clock,
                   country_lookups>>
    /\ UNCHANGED notify_vars

\* the epoch check of the Ok arm
CheckAfterOk(w) ==
    /\ pc[w] = "check_ok"
    /\ IF current_capture_id # capture_id[w]
       THEN /\ pc' = [pc EXCEPT ![w] = "done"]
            /\ loc' = [loc EXCEPT ![w] = reset_locals(@)]
       ELSE /\ pc' = [pc EXCEPT ![w] = "parse"]
            /\ loc' = loc
    /\ UNCHANGED <<current_capture_id, info_traffic, capture_id, clock, reads, country_lookups>>
    /\ UNCHANGED notify_vars

\* the locals after parsing, classifying and filtering the packet read
classify(l, time) ==
    LET l0 == [reset_locals(l) EXCEPT !.packet = l.packet]
        l1 == analyze_network_header(l.packet.ip, l0)
        l2 == analyze_transport_header(l.packet.transport, l1)
        l3 == [l2 EXCEPT
                 !.traffic_type = get_traffic_type(l2.address1, l2.address2),
                 !.key = AddressPortPair(l2.address1, l2.port1, l2.address2,
                                         l2.port2, l2.transport_protocol)]
        l4 == [l3 EXCEPT
                 !.now = time,
                 !.very_long_address =
                     \/ Len(l3.key.address1) > LongAddressLen
                     \/ Len(l3.key.address2) > LongAddressLen,
                 !.reported_packet = TRUE]
    IN  IF ~l.packet.eth_ok THEN l0
        ELSE IF l1.skip_packet THEN l1
        ELSE IF l2.skip_packet THEN l2
        ELSE IF passes_filters(l.filters, l3.network_protocol,
                               l3.transport_protocol, l3.application_protocol)
        THEN l4
        ELSE l3

\* after_classify without the skip_packet tests
after_classify_no_skip(l, c) ==
    IF ~l.packet.eth_ok THEN "read"
    ELSE IF c.reported_packet THEN "update_map"
    ELSE "update_totals"

\* where the worker goes once the packet is classified
after_classify(l, c) ==
    IF ~l.packet.eth_ok \/ c.skip_packet THEN "read"
    ELSE IF c.reported_packet THEN "update_map"
    ELSE "update_totals"

\* PacketHeaders::from_ethernet_slice up to the filter test
ParsePacket(w) ==
    /\ pc[w] = "parse"
    /\ \E c \in {classify(loc[w], clock)} :
       \E to \in {after_classify(loc[w], c)} :
          /\ pc' = [pc EXCEPT ![w] = to]
          /\ loc' = [loc EXCEPT ![w] = IF to = "read" THEN reset_locals(c) ELSE c]
          /\ clock' = IF c.reported_packet THEN clock + 1 ELSE clock
    /\ UNCHANGED <<current_capture_id, info_traffic, capture_id, reads,
                   country_lookups>>
    /\ UNCHANGED notify_vars

\* the first critical section (reported packets only)
UpdateMap(w) ==
    /\ pc[w] = "update_map"
    /\ info_traffic' = fold_connection(info_traffic, loc[w])
    /\ country_lookups' =
          country_lookups \o country_calls(info_traffic.map, loc[w].key)
    /\ pc' = [pc EXCEPT ![w] = "update_totals"]
    /\ UNCHANGED <<current_capture_id, capture_id, loc, clock, reads>>
    /\ UNCHANGED notify_vars

\* the second critical section
UpdateTotals(w) ==
    /\ pc[w] = "update_totals"
    /\ info_traffic' = fold_totals(info_traffic, loc[w])
    /\ pc' = [pc EXCEPT ![w] = "read"]
    /\ loc' = [loc EXCEPT ![w] = reset_locals(@)]
    /\ UNCHANGED <<current_capture_id, capture_id, clock, reads,
                   country_lookups>>
    /\ UNCHANGED notify_vars

Next ==
    \/ \E w \in Workers, f \in FilterChoices : StartCapture(w, f)
    \/ \E i \in 0..(MaxPackets - 1), add \in BOOLEAN : AddOrRemoveFavorite(i, add)
    \/ \E w \in Workers : ReadCaptureId(w)
    \/ \E w \in Workers : NextPacketErr(w)
    \/ \E w \in Workers : CheckAfterErr(w)
    \/ \E w \in Workers, packet \in Frames : NextPacketOk(w, packet)
    \/ \E w \in Workers : CheckAfterOk(w)
    \/ \E w \in Workers : ParsePacket(w)
    \/ \E w \in Workers : UpdateMap(w)
    \/ \E w \in Workers : UpdateTotals(w)

Spec == Init /\ [][Next]_vars

\* the frames delivered while termination is examined: one that does not
\* parse, one that is skipped and one that reaches both critical sections
LiveFrames ==
    { Frame(FALSE, None, None),
      Frame(TRUE, Some(IpHeader("IPv4", Me, Peer, 2)), None),
      Frame(TRUE, Some(IpHeader("IPv4", Me, Peer, 3)),
                  Some(TransportHeader("TCP", 51000, 443))) }

\* the steps of the thread running parse_packets_loop as worker w
WorkerStep(w) ==
    \/ ReadCaptureId(w)
    \/ NextPacketErr(w)
    \/ \E packet \in LiveFrames : NextPacketOk(w, packet)
    \/ CheckAfterErr(w)
    \/ CheckAfterOk(w)
    \/ ParsePacket(w)
    \/ UpdateMap(w)
    \/ UpdateTotals(w)

\* every worker thread keeps being scheduled: each read attempt returns and
\* each lock is eventually granted
NextLive ==
    \/ \E w \in Workers, f \in FilterChoices : StartCapture(w, f)
    \/ \E w \in Workers : WorkerStep(w)

SpecLive ==
    Init /\ [][NextLive]_vars /\ \A w \in Workers : WF_vars(WorkerStep(w))

\* ------------------------------------------------- one packet, any addresses
Addresses == {Me, Me6, Peer, Peer6, Mcast, Bcast}

\* a UDP packet of 1 byte for every pair of source and destination address
DirectionFrames ==
    { Frame(TRUE, Some(IpHeader("IPv4", a1, a2, 1)),
                  Some(TransportHeader("UDP", 5353, 5353))) :
        a1 \in Addresses, a2 \in Addresses }

\* the worker of the first capture session has read its first packet and
\* passed the epoch check
InitDirection ==
    /\ current_capture_id = 1
    /\ info_traffic = InfoTrafficNew
    /\ pc = [w \in Workers |-> IF w = "w1" THEN "parse" ELSE "idle"]
    /\ capture_id = [w \in Workers |-> IF w = "w1" THEN 1 ELSE 0]
    /\ \E f \in FilterChoices, packet \in DirectionFrames :
          loc = [w \in Workers |->
                   IF w = "w1"
                   THEN [LocalsNew EXCEPT !.filters = f, !.packet = packet]
                   ELSE LocalsNew]
    /\ clock = 1
    /\ reads = 1
    /\ country_lookups = <<>>
    /\ runtime_data = RunTimeDataNew
    /\ notifications = DefaultNotifications
    /\ ticks = 0
    /\ pushed = <<>>
    /\ played = <<>>

\* the packet is classified and folded in
NextDirection ==
    \/ \E w \in Workers : ParsePacket(w)
    \/ \E w \in Workers : UpdateMap(w)
    \/ \E w \in Workers : UpdateTotals(w)

SpecDirection == InitDirection /\ [][NextDirection]_vars

\* ------------------------------------------------------------ capture loop
\* w takes a step of parse_packets_loop out of position p
Leaves(w, p) == pc[w] = p /\ pc'[w] # p

\* the packet w holds was parsed and neither header analysis set skip_packet
Accepted(w) ==
    /\ loc[w].packet.eth_ok
    /\ ~classify(loc[w], clock).skip_packet

\* C1: once the shared epoch differs from the one a running worker took at
\* start, no step of that worker changes the aggregator any more.
C1_NoMutationAfterBump ==
    [][\A w \in Workers :
         (/\ pc[w] \in {"read", "check_err", "check_ok", "parse",
                        "update_map", "update_totals"}
          /\ pc'[w] # pc[w]
          /\ current_capture_id # capture_id[w])
         => info_traffic' = info_traffic]_vars

\* C2: a packet read with a matching epoch that parses and is not skipped
\* reaches the second critical section, which adds exactly 1 to all_packets
\* and the packet's payload length to all_bytes, whether or not it passed the
\* filters; the first critical section leaves both counters alone.
C2_AllPacketsCounted ==
    [][\A w \in Workers :
         /\ (Leaves(w, "parse") /\ Accepted(w))
            => pc'[w] \in {"update_map", "update_totals"}
         /\ Leaves(w, "update_map")
            => /\ pc'[w] = "update_totals"
               /\ info_traffic'.all_packets = info_traffic.all_packets
               /\ info_traffic'.all_bytes = info_traffic.all_bytes
         /\ Leaves(w, "update_totals")
            => /\ info_traffic'.all_packets = info_traffic.all_packets + 1
               /\ info_traffic'.all_bytes =
                     info_traffic.all_bytes + unwrap(loc[w].packet.ip).payload_len
      ]_vars

\* two packets were counted, 3 and 2 bytes long, and only one was reported
C2_Witness ==
    /\ info_traffic.all_packets = 2
    /\ info_traffic.all_bytes = 5
    /\ info_traffic.tot_sent_packets + info_traffic.tot_received_packets = 1
    /\ \A w \in Workers : pc[w] \notin {"update_map", "update_totals"}

\* C3: a failed read, a frame that does not parse and a packet either header
\* analysis marks skip leave the whole aggregator unchanged: the worker goes
\* back to reading without entering a critical section.
C3_SkippedLeaveAggregator ==
    [][\A w \in Workers :
         /\ (\E p \in {"read", "check_err", "check_ok", "parse"} : Leaves(w, p))
            => info_traffic' = info_traffic
         /\ (Leaves(w, "parse") /\ ~Accepted(w)) => pc'[w] = "read"
      ]_vars

\* a worker is back at reading after an IP packet without transport header
\* (its 2 bytes are still in exchanged_bytes) and nothing was counted
C3_Witness ==
    /\ info_traffic = InfoTrafficNew
    /\ \E w \in Workers : pc[w] = "read" /\ loc[w].exchanged_bytes = 2

\* the direction of the packet w holds, from the addresses in its IP header
PacketDirection(w) ==
    get_traffic_type(unwrap(loc[w].packet.ip).source,
                     unwrap(loc[w].packet.ip).destination)

\* C4: for a packet that passes the three filters the second critical section
\* adds 1 packet and the packet's bytes to the sent totals when the direction
\* is Outgoing and to the received totals otherwise, and leaves the other
\* pair alone; the first critical section changes neither pair.
C4_SentOrReceived ==
    [][\A w \in Workers :
         /\ (/\ Leaves(w, "update_totals")
             /\ passes_filters(loc[w].filters, loc[w].network_protocol,
                               loc[w].transport_protocol,
                               loc[w].application_protocol))
            => LET n == unwrap(loc[w].packet.ip).payload_len
                   sent == PacketDirection(w) = "Outgoing"
                   ds == IF sent THEN 1 ELSE 0
                   dr == IF sent THEN 0 ELSE 1
               IN  /\ info_traffic'.tot_sent_packets =
                         info_traffic.tot_sent_packets + ds
                   /\ info_traffic'.tot_sent_bytes =
                         info_traffic.tot_sent_bytes + ds * n
                   /\ info_traffic'.tot_received_packets =
                         info_traffic.tot_received_packets + dr
                   /\ info_traffic'.tot_received_bytes =
                         info_traffic.tot_received_bytes + dr * n
         /\ Leaves(w, "update_map")
            => /\ info_traffic'.tot_sent_packets = info_traffic.tot_sent_packets
               /\ info_traffic'.tot_sent_bytes = info_traffic.tot_sent_bytes
               /\ info_traffic'.tot_received_packets =
                     info_traffic.tot_received_packets
               /\ info_traffic'.tot_received_bytes =
                     info_traffic.tot_received_bytes
      ]_vars

\* an outgoing packet of 3 bytes and a multicast or broadcast packet of 1 byte
\* were both reported
C4_Witness ==
    /\ info_traffic.tot_sent_packets = 1
    /\ info_traffic.tot_sent_bytes = 3
    /\ info_traffic.tot_received_packets = 1
    /\ info_traffic.tot_received_bytes = 1
    /\ \E i \in 1..Len(info_traffic.map) :
          info_traffic.map[i].info.traffic_type \in {"Multicast", "Broadcast"}

\* C5: every record's index is the position of its key in the map, and no
\* step moves a key or changes the index of a record already in the map.
C5_IndexIsPosition ==
    /\ [](\A i \in 1..Len(info_traffic.map) :
             info_traffic.map[i].info.index = i - 1)
    /\ [][/\ Len(info_traffic'.map) >= Len(info_traffic.map)
          /\ \A i \in 1..Len(info_traffic.map) :
                /\ info_traffic'.map[i].key = info_traffic.map[i].key
                /\ info_traffic'.map[i].info.index =
                      info_traffic.map[i].info.index]_vars

\* a second key was inserted behind the first
C5_Witness ==
    /\ Len(info_traffic.map) = 2
    /\ info_traffic.map[2].info.index = 1
    /\ info_traffic.map[1].info.index = 0

\* C6: get_country_code was called exactly once for each key of the map, by
\* the packet that inserted it (the calls list the keys in insertion order,
\* each once), and every record holds the code resolved at its insertion.
C6_GeoOncePerKey ==
    /\ Len(country_lookups) = Len(info_traffic.map)
    /\ \A i \in 1..Len(info_traffic.map) :
          /\ country_lookups[i] = info_traffic.map[i].key
          /\ info_traffic.map[i].info.country =
                get_country_code(info_traffic.map[i].info.traffic_type,
                                 info_traffic.map[i].key)
    /\ \A i, j \in 1..Len(country_lookups) :
          country_lookups[i] = country_lookups[j] => i = j

\* a second packet of a geolocated connection was folded in
C6_Witness ==
    /\ Len(country_lookups) = 1
    /\ Len(info_traffic.map) = 1
    /\ info_traffic.map[1].info.transmitted_packets = 2
    /\ info_traffic.map[1].info.country = "US"

\* -------------------------------------------------------- notification log
pop_back(log) == IF log = <<>> THEN log ELSE SubSeq(log, 1, Len(log) - 1)
push_front(log, e) == <<e>> \o log

\* log_notification that evicts only above the capacity
log_notification_above(log, e) ==
    push_front(IF Len(log) > LogCapacity THEN pop_back(log) ELSE log, e)

\* if logged_notifications.len() >= 30 { pop_back } ; push_front(e)
log_notification(log, e) ==
    push_front(IF Len(log) >= LogCapacity THEN pop_back(log) ELSE log, e)

PacketsThresholdExceeded(threshold, incoming, outgoing, timestamp) ==
    [kind |-> "PacketsThresholdExceeded", threshold |-> threshold,
     incoming |-> incoming, outgoing |-> outgoing, timestamp |-> timestamp]

BytesThresholdExceeded(threshold, byte_multiple, incoming, outgoing, timestamp) ==
    [kind |-> "BytesThresholdExceeded", threshold |-> threshold,
     byte_multiple |-> byte_multiple,
     incoming |-> incoming, outgoing |-> outgoing, timestamp |-> timestamp]

FavoriteTransmitted(key, info, timestamp) ==
    [kind |-> "FavoriteTransmitted", connection |-> <<key, info>>,
     timestamp |-> timestamp]

\* the running state of one call: the log, what was pushed and played so far
TickState(log) ==
    [log |-> log, pushed |-> <<>>, played |-> <<>>,
     already_emitted_sound |-> FALSE]

play(n, sound, volume) ==
    [n EXCEPT !.played = Append(@, [sound |-> sound, volume |-> volume]),
              !.already_emitted_sound = TRUE]

push(n, e) ==
    [n EXCEPT !.log = log_notification(@, e), !.pushed = Append(@, e)]

\* check_packets with >= for the threshold comparison
check_packets_at_threshold(rd, cfg, time, n) ==
    LET pn == cfg.packets_notification
        sent_packets_entry == rd.tot_sent_packets - rd.tot_sent_packets_prev
        received_packets_entry ==
            rd.tot_received_packets - rd.tot_received_packets_prev
        n1 == push(n, PacketsThresholdExceeded(pn.previous_threshold,
                          received_packets_entry, sent_packets_entry, time))
    IN  IF ~is_some(pn.threshold) THEN n
        ELSE IF ~(received_packets_entry + sent_packets_entry
                     >= unwrap(pn.threshold)) THEN n
        ELSE IF pn.sound # "None"
        THEN play(n1, pn.sound, cfg.volume)
        ELSE n1

\* the packets threshold block of notify_and_log
check_packets(rd, cfg, time, n) ==
    LET pn == cfg.packets_notification
        sent_packets_entry == rd.tot_sent_packets - rd.tot_sent_packets_prev
        received_packets_entry ==
            rd.tot_received_packets - rd.tot_received_packets_prev
        n1 == push(n, PacketsThresholdExceeded(pn.previous_threshold,
                          received_packets_entry, sent_packets_entry, time))
    IN  IF ~is_some(pn.threshold) THEN n
        ELSE IF ~(received_packets_entry + sent_packets_entry
                     > unwrap(pn.threshold)) THEN n
        ELSE IF pn.sound # "None"
        THEN play(n1, pn.sound, cfg.volume)
        ELSE n1

\* check_bytes without the already_emitted_sound test
check_bytes_always_sound(rd, cfg, time, n) ==
    LET bn == cfg.bytes_notification
        sent_bytes_entry == rd.tot_sent_bytes - rd.tot_sent_bytes_prev
        received_bytes_entry ==
            rd.tot_received_bytes - rd.tot_received_bytes_prev
        n1 == push(n, BytesThresholdExceeded(bn.previous_threshold,
                          bn.byte_multiple, received_bytes_entry,
                          sent_bytes_entry, time))
    IN  IF ~is_some(bn.threshold) THEN n
        ELSE IF ~(received_bytes_entry + sent_bytes_entry
                     > unwrap(bn.threshold)) THEN n
        ELSE IF bn.sound # "None"
        THEN play(n1, bn.sound, cfg.volume)
        ELSE n1

\* the bytes threshold block of notify_and_log
check_bytes(rd, cfg, time, n) ==
    LET bn == cfg.bytes_notification
        sent_bytes_entry == rd.tot_sent_bytes - rd.tot_sent_bytes_prev
        received_bytes_entry ==
            rd.tot_received_bytes - rd.tot_received_bytes_prev
        n1 == push(n, BytesThresholdExceeded(bn.previous_threshold,
                          bn.byte_multiple, received_bytes_entry,
                          sent_bytes_entry, time))
    IN  IF ~is_some(bn.threshold) THEN n
        ELSE IF ~(received_bytes_entry + sent_bytes_entry
                     > unwrap(bn.threshold)) THEN n
        ELSE IF ~n.already_emitted_sound /\ bn.sound # "None"
        THEN play(n1, bn.sound, cfg.volume)
        ELSE n1

\* one iteration of the loop of bar
bar_step(map, cfg, time, n, index) ==
    LET key_val == map[index + 1]
        n1 == push(n, FavoriteTransmitted(key_val.key, key_val.info, time))
    IN  IF ~n.already_emitted_sound
           /\ cfg.favorite_notification.sound # "None"
        THEN play(n1, cfg.favorite_notification.sound,
                  cfg.volume)
        ELSE n1

\* bar: order is the order in which the set's iterator yields the indices
RECURSIVE bar(_, _, _, _, _)
bar(map, cfg, time, n, order) ==
    IF order = <<>> THEN n
    ELSE bar(map, cfg, time,
             bar_step(map, cfg, time, n, Head(order)), Tail(order))

\* the sequences that list each element of S once
Orders(S) ==
    {o \in [1..Cardinality(S) -> S] : \A i, j \in DOMAIN o : o[i] = o[j] => i = j}

\* notify_and_log with the bytes block ahead of the packets block
notify_and_log_bytes_first(rd, cfg, it, time, order) ==
    LET n0 == TickState(rd.logged_notifications)
        n1 == check_bytes(rd, cfg, time, n0)
        n2 == check_packets(rd, cfg, time, n1)
    IN  IF cfg.favorite_notification.notify_on_favorite
           /\ rd.favorites_last_interval # {}
        THEN bar(it.map, cfg, time, n2, order)
        ELSE n2

\* notify_and_log without the notify_on_favorite test
notify_and_log_any_favorite(rd, cfg, it, time, order) ==
    LET n0 == TickState(rd.logged_notifications)
        n1 == check_packets(rd, cfg, time, n0)
        n2 == check_bytes(rd, cfg, time, n1)
    IN  IF rd.favorites_last_interval # {}
        THEN bar(it.map, cfg, time, n2, order)
        ELSE n2

notify_and_log(rd, cfg, it, time, order) ==
    LET n0 == TickState(rd.logged_notifications)
        n1 == check_packets(rd, cfg, time, n0)
        n2 == check_bytes(rd, cfg, time, n1)
    IN  IF cfg.favorite_notification.notify_on_favorite
           /\ rd.favorites_last_interval # {}
        THEN bar(it.map, cfg, time, n2, order)
        ELSE n2

\* ------------------------------------------------------ notification tick
\* NotifyAndLog that drains the aggregator's favorites set through the guard
NotifyAndLog_drains(order) ==
    /\ ticks < MaxTicks
    /\ \E n \in {notify_and_log(runtime_data, notifications, info_traffic,
                                 clock, order)} :
          /\ runtime_data' = [runtime_data EXCEPT !.logged_notifications = n.log]
          /\ pushed' = n.pushed
          /\ played' = n.played
    /\ ticks' = ticks + 1
    /\ info_traffic' = [info_traffic EXCEPT !.favorites_last_interval = {}]
    /\ UNCHANGED <<current_capture_id, pc, capture_id, loc, clock, reads,
                   country_lookups, notifications>>

\* a call of notify_and_log by the interval driver
NotifyAndLog(order) ==
    /\ ticks < MaxTicks
    /\ \E n \in {notify_and_log(runtime_data, notifications, info_traffic,
                                 clock, order)} :
          /\ runtime_data' = [runtime_data EXCEPT !.logged_notifications = n.log]
          /\ pushed' = n.pushed
          /\ played' = n.played
    /\ ticks' = ticks + 1
    /\ UNCHANGED <<capture_vars, notifications>>

\* one packet folded in by a worker running alone
fold_packet(it, packet, f, time) ==
    LET c == classify([LocalsNew EXCEPT !.filters = f, !.packet = packet], time)
    IN  IF ~packet.eth_ok \/ c.skip_packet THEN it
        ELSE IF c.reported_packet THEN fold_totals(fold_connection(it, c), c)
        ELSE fold_totals(it, c)

\* it is an aggregator the capture loop has built: three connections, the
\* first one marked favorite and then seen again
SampleTraffic(it) ==
    LET f == Filters("Other", "Other", "Other")
        p1 == Frame(TRUE, Some(IpHeader("IPv4", Me, Peer, 3)),
                    Some(TransportHeader("TCP", 51000, 443)))
        p2 == Frame(TRUE, Some(IpHeader("IPv4", Peer, Me, 2)),
                    Some(TransportHeader("UDP", 53, 53)))
        p3 == Frame(TRUE, Some(IpHeader("IPv6", Peer6, Mcast, 1)),
                    Some(TransportHeader("UDP", 5353, 5353)))
    IN  \E t1 \in {fold_packet(InfoTrafficNew, p1, f, 1)} :
        \E t2 \in {fold_packet(t1, p2, f, 2)} :
        \E t3 \in {fold_packet(t2, p3, f, 3)} :
        \E t4 \in {[t3 EXCEPT !.map[1].info.is_favorite = TRUE]} :
           it = fold_packet(t4, p1, f, 4)

\* a log of n earlier alerts, the newest first
EarlierLog(n) ==
    [i \in 1..n |-> PacketsThresholdExceeded(3, 3 + (n - i), 1, 0)]

InitLogLens == {0, LogCapacity - 1, LogCapacity}
InitFavorites == {{}, {0, 2}}

InitNotify ==
    /\ current_capture_id = 0
    /\ SampleTraffic(info_traffic)
    /\ pc = [w \in Workers |-> "idle"]
    /\ capture_id = [w \in Workers |-> 0]
    /\ loc = [w \in Workers |-> LocalsNew]
    /\ clock = 5
    /\ reads = info_traffic.all_packets
    /\ country_lookups =
          [i \in 1..Len(info_traffic.map) |-> info_traffic.map[i].key]
    /\ notifications \in NotificationChoices
    /\ \E sp, rp, sb, rb \in 0..MaxDelta, len \in InitLogLens,
          fav \in InitFavorites :
          runtime_data =
             [tot_sent_packets |-> 1 + sp, tot_sent_packets_prev |-> 1,
              tot_received_packets |-> 2 + rp, tot_received_packets_prev |-> 2,
              tot_sent_bytes |-> 3 + sb, tot_sent_bytes_prev |-> 3,
              tot_received_bytes |-> 1 + rb, tot_received_bytes_prev |-> 1,
              favorites_last_interval |-> fav,
              logged_notifications |-> EarlierLog(len)]
    /\ ticks = 0
    /\ pushed = <<>>
    /\ played = <<>>

NextNotify ==
    \E order \in Orders(runtime_data.favorites_last_interval) :
       NotifyAndLog(order)

SpecNotify == InitNotify /\ [][NextNotify]_vars

\* ------------------------------------------------------ notification engine
\* the step is a call of notify_and_log
IsTick == ticks' = ticks + 1

Reverse(q) == [i \in 1..Len(q) |-> q[Len(q) + 1 - i]]
Take(q, n) == SubSeq(q, 1, IF Len(q) < n THEN Len(q) ELSE n)

IsPacketsEntry(e) == e.kind = "PacketsThresholdExceeded"
IsBytesEntry(e) == e.kind = "BytesThresholdExceeded"
IsFavoriteEntry(e) == e.kind = "FavoriteTransmitted"

\* C7: the log never holds more than 30 entries, and a tick leaves it as
\* the entries it pushed, newest first, in front of the earlier log, cut at
\* 30 entries from the back: every push goes to the front and a push onto a
\* full log drops exactly the oldest entry.
C7_LogBounded ==
    /\ [](Len(runtime_data.logged_notifications) <= LogCapacity)
    /\ [][IsTick =>
            runtime_data'.logged_notifications =
               Take(Reverse(pushed') \o runtime_data.logged_notifications,
                    LogCapacity)]_vars

\* a tick pushed four entries onto a full log: the newest is at the front,
\* the four oldest are gone
C7_Witness ==
    /\ Len(pushed) = 4
    /\ Len(runtime_data.logged_notifications) = LogCapacity
    /\ runtime_data.logged_notifications[1] = pushed[4]
    /\ runtime_data.logged_notifications[5] = EarlierLog(LogCapacity)[1]
    /\ runtime_data.logged_notifications[LogCapacity] =
          EarlierLog(LogCapacity)[LogCapacity - 4]

\* C8: one call of notify_and_log plays at most one sound.
C8_OneSoundPerTick == Len(played) <= 1

\* both thresholds and two favorites fired with every sound configured
C8_Witness ==
    /\ Len(pushed) = 4
    /\ Len(played) = 1
    /\ notifications.packets_notification.sound # "None"
    /\ notifications.bytes_notification.sound # "None"
    /\ notifications.favorite_notification.sound # "None"

\* the alert with this threshold fires for these totals
Fires(threshold, sent, sent_prev, received, received_prev) ==
    /\ is_some(threshold)
    /\ (sent - sent_prev) + (received - received_prev) > unwrap(threshold)

\* the entries a tick pushed for one alert kind are as the deltas demand
EntriesAsDeltas(entries, sounds, alert, sent, sent_prev, received, received_prev) ==
    IF Fires(alert.threshold, sent, sent_prev, received, received_prev)
    THEN /\ Len(entries) = 1
         /\ entries[1].outgoing = sent - sent_prev
         /\ entries[1].incoming = received - received_prev
    ELSE /\ entries = <<>>
         /\ \A i \in 1..Len(sounds) : sounds[i].sound # alert.sound

\* C9: a tick pushes exactly one packets entry iff the packets threshold is
\* set and sent delta + received delta is strictly greater than it, with
\* outgoing = sent delta and incoming = received delta; otherwise it pushes
\* no packets entry and plays no packets sound. The same for bytes.
C9_ThresholdEntries ==
    [][IsTick =>
         /\ EntriesAsDeltas(SelectSeq(pushed', IsPacketsEntry), played',
               notifications.packets_notification,
               runtime_data.tot_sent_packets,
               runtime_data.tot_sent_packets_prev,
               runtime_data.tot_received_packets,
               runtime_data.tot_received_packets_prev)
         /\ EntriesAsDeltas(SelectSeq(pushed', IsBytesEntry), played',
               notifications.bytes_notification,
               runtime_data.tot_sent_bytes,
               runtime_data.tot_sent_bytes_prev,
               runtime_data.tot_received_bytes,
               runtime_data.tot_received_bytes_prev)]_vars

\* a packets entry was pushed for 2 packets sent and none received, and no
\* bytes entry although the bytes threshold is set (1 byte went by)
C9_Witness ==
    /\ ticks > 0
    /\ \E i \in 1..Len(pushed) :
          /\ IsPacketsEntry(pushed[i])
          /\ pushed[i].outgoing = 2
          /\ pushed[i].incoming = 0
    /\ is_some(notifications.bytes_notification.threshold)
    /\ SelectSeq(pushed, IsBytesEntry) = <<>>
    /\ runtime_data.tot_sent_bytes - runtime_data.tot_sent_bytes_prev = 1

\* C10: every threshold entry a tick pushes carries the threshold the delta
\* was compared against, the live threshold of its alert kind.
C10_CarriesLiveThreshold ==
    [][IsTick =>
         \A i \in 1..Len(pushed') :
            /\ IsPacketsEntry(pushed'[i]) =>
                  pushed'[i].threshold =
                     unwrap(notifications.packets_notification.threshold)
            /\ IsBytesEntry(pushed'[i]) =>
                  pushed'[i].threshold =
                     unwrap(notifications.bytes_notification.threshold)]_vars

\* the favorite entries of a tick are one per index of the set S, each with
\* the key and record the aggregator map holds at that index
FavoriteEntriesFor(entries, S, map) ==
    /\ Len(entries) = Cardinality(S)
    /\ \A index \in S :
          \E i \in 1..Len(entries) :
             /\ entries[i].connection =
                   <<map[index + 1].key, map[index + 1].info>>
             /\ \A j \in 1..Len(entries) :
                   entries[j].connection[2].index = index => j = i

\* C11 as stated: when favorite notifications are enabled and the
\* aggregator's own favorites_last_interval set is non-empty, a tick pushes
\* exactly one FavoriteTransmitted entry per index of that set, with the key
\* and record at that index; when they are disabled or that set is empty it
\* pushes none.
C11_FromAggregatorSet ==
    [][IsTick =>
         IF /\ notifications.favorite_notification.notify_on_favorite
            /\ info_traffic.favorites_last_interval # {}
         THEN FavoriteEntriesFor(SelectSeq(pushed', IsFavoriteEntry),
                                 info_traffic.favorites_last_interval,
                                 info_traffic.map)
         ELSE SelectSeq(pushed', IsFavoriteEntry) = <<>>]_vars

\* C11 amended: when favorite notifications are enabled and the caller's
\* snapshot runtime_data.favorites_last_interval is non-empty, a tick pushes
\* exactly one FavoriteTransmitted entry per index of that snapshot set, each
\* with the key and record the aggregator map holds at that index; when they
\* are disabled or the snapshot set is empty it pushes none.
C11_FromRuntimeSet ==
    [][IsTick =>
         IF /\ notifications.favorite_notification.notify_on_favorite
            /\ runtime_data.favorites_last_interval # {}
         THEN FavoriteEntriesFor(SelectSeq(pushed', IsFavoriteEntry),
                                 runtime_data.favorites_last_interval,
                                 info_traffic.map)
         ELSE SelectSeq(pushed', IsFavoriteEntry) = <<>>]_vars

\* a tick pushed the entries of the snapshot set {0, 2} while the aggregator's
\* own set was {0}
C11_Witness ==
    /\ ticks > 0
    /\ info_traffic.favorites_last_interval = {0}
    /\ runtime_data.favorites_last_interval = {0, 2}
    /\ Len(SelectSeq(pushed, IsFavoriteEntry)) = 2
    /\ \E i \in 1..Len(pushed) :
          /\ IsFavoriteEntry(pushed[i])
          /\ pushed[i].connection[1] = info_traffic.map[3].key

\* C12: a call of notify_and_log (bar included) leaves every field of the
\* aggregator as it was, and of the caller's runtime snapshot it changes the
\* log only.
C12_TickLeavesAggregator ==
    [][IsTick =>
         /\ info_traffic' = info_traffic
         /\ \A f \in DOMAIN runtime_data \ {"logged_notifications"} :
               runtime_data'[f] = runtime_data[f]]_vars

\* a tick that went through bar under the aggregator lock pushed entries, and
\* the aggregator still holds its map and its own favorites set
C12_Witness ==
    /\ ticks > 0
    /\ \E i \in 1..Len(pushed) : IsFavoriteEntry(pushed[i])
    /\ Len(runtime_data.logged_notifications) > 0
    /\ SampleTraffic(info_traffic)

\* a is one of the capturing interface's own addresses
IsLocal(a) == a \in my_interface_addresses

\* C13: the direction a classified packet is given follows the first rule
\* that matches, in the order: address1 local gives Outgoing; else address2
\* local gives Incoming; else address2 multicast gives Multicast; else
\* address2 broadcast gives Broadcast; else Other. A packet with both
\* addresses local is Outgoing, and a packet with a local address is never
\* Multicast or Broadcast.
C13_DirectionByFirstRule ==
    \A w \in Workers :
       pc[w] \in {"update_map", "update_totals"} =>
          LET a1 == unwrap(loc[w].packet.ip).source
              a2 == unwrap(loc[w].packet.ip).destination
              t == loc[w].traffic_type
              neither == ~IsLocal(a1) /\ ~IsLocal(a2)
          IN  /\ IsLocal(a1) => t = "Outgoing"
              /\ (~IsLocal(a1) /\ IsLocal(a2)) => t = "Incoming"
              /\ (neither /\ is_multicast_address(a2)) => t = "Multicast"
              /\ (neither /\ ~is_multicast_address(a2)
                     /\ is_broadcast_address(a2)) => t = "Broadcast"
              /\ (neither /\ ~is_multicast_address(a2)
                     /\ ~is_broadcast_address(a2)) => t = "Other"
              /\ (IsLocal(a1) /\ IsLocal(a2)) => t = "Outgoing"
              /\ (IsLocal(a1) \/ IsLocal(a2)) =>
                    t \notin {"Multicast", "Broadcast"}

\* a packet between two interface addresses was folded in: the record
\* inserted for it is Outgoing
C13_Witness ==
    /\ Len(info_traffic.map) = 1
    /\ info_traffic.map[1].key.address1 = Me6
    /\ info_traffic.map[1].key.address2 = Me
    /\ info_traffic.map[1].info.traffic_type = "Outgoing"

\* w has taken its epoch and has not returned
Running(w) ==
    pc[w] \in {"read", "check_err", "check_ok", "parse", "update_map",
               "update_totals"}

\* the shared epoch differs from the one w took at start
Stale(w) == current_capture_id # capture_id[w]

\* C14: a running worker whose epoch differs from the shared one eventually
\* returns; the epoch check that follows a read attempt, failed or
\* successful, sends a stale worker to the return and nowhere else; and a
\* worker that has returned takes no further step.
C14_StaleWorkerExits ==
    /\ \A w \in Workers : (Running(w) /\ Stale(w)) ~> (pc[w] = "done")
    /\ [][\A w \in Workers :
            /\ (\E p \in {"check_err", "check_ok"} : Leaves(w, p) /\ Stale(w))
               => pc'[w] = "done"
            /\ pc[w] = "done"
               => (pc'[w] = "done" /\ loc'[w] = loc[w])]_vars

\* a worker made stale by the second session has returned while the new
\* worker is running
C14_Witness ==
    \E w, v \in Workers :
       /\ pc[w] = "done"
       /\ Stale(w)
       /\ Running(v)
       /\ ~Stale(v)

\* C15: a parsed, non-skipped packet is reported exactly when each of the
\* network, transport and application filters is the wildcard Other or
\* equals the packet's value; a packet that is not reported goes straight to
\* the second critical section, which adds 1 to all_packets and the packet's
\* bytes to all_bytes and leaves the map, every record, app_protocols, the
\* sent and received totals and both interval sets as they were.
C15_FilteredOnlyCounted ==
    [][\A w \in Workers :
         /\ (Leaves(w, "parse") /\ Accepted(w))
            => LET f == loc[w].filters
                   layers ==
                     { <<f.ip, unwrap(loc[w].packet.ip).version>>,
                       <<f.transport, unwrap(loc[w].packet.transport).protocol>>,
                       <<f.application, loc'[w].application_protocol>> }
                   passes == \A l \in layers : l[1] = "Other" \/ l[1] = l[2]
               IN  /\ loc'[w].reported_packet <=> passes
                   /\ pc'[w] = IF passes THEN "update_map" ELSE "update_totals"
         /\ (Leaves(w, "update_totals") /\ ~loc[w].reported_packet)
            => /\ info_traffic'.all_packets = info_traffic.all_packets + 1
               /\ info_traffic'.all_bytes =
                     info_traffic.all_bytes + unwrap(loc[w].packet.ip).payload_len
               /\ [info_traffic' EXCEPT
                     !.all_packets = info_traffic.all_packets,
                     !.all_bytes = info_traffic.all_bytes] = info_traffic
      ]_vars

\* after a reported packet, a DNS packet of 2 bytes failed the filters of a
\* worker started with IPv4 / TCP / HTTPS: it was counted and the map, the
\* histogram and the totals still show the first packet only
C15_Witness ==
    /\ info_traffic.all_packets = 2
    /\ Len(info_traffic.map) = 1
    /\ info_traffic.map[1].info.transmitted_packets = 1
    /\ info_traffic.addresses_last_interval = {0}
    /\ DOMAIN info_traffic.app_protocols = {"HTTPS"}
    /\ info_traffic.tot_sent_packets = 1
    /\ info_traffic.tot_received_packets = 0
    /\ \E w \in Workers :
          /\ pc[w] = "read"
          /\ loc[w].filters = Filters("IPv4", "TCP", "HTTPS")
          /\ loc[w].port1 = 53

\* the connection key of the packet w holds, from the packet's headers
PacketKey(w) ==
    AddressPortPair(unwrap(loc[w].packet.ip).source,
                    unwrap(loc[w].packet.transport).source_port,
                    unwrap(loc[w].packet.ip).destination,
                    unwrap(loc[w].packet.transport).destination_port,
                    unwrap(loc[w].packet.transport).protocol)

\* 0-based positions of key in map
PositionsOf(map, key) == {i \in 0..(Len(map) - 1) : map[i + 1].key = key}

\* C16: when the first critical section has folded in a reported packet of
\* the connection with index i, i is in addresses_last_interval; i is in
\* favorites_last_interval iff it was there before or the record existed
\* before this packet with is_favorite set; a packet that inserts its record
\* leaves favorites_last_interval without its index; and no step of the
\* capture loop changes the is_favorite flag of a record or inserts a record
\* with the flag set.
C16_IntervalSets ==
    [][/\ \A w \in Workers :
            Leaves(w, "update_map") =>
               /\ PositionsOf(info_traffic'.map, PacketKey(w)) # {}
               /\ \A i \in PositionsOf(info_traffic'.map, PacketKey(w)) :
                  LET existed == i < Len(info_traffic.map)
                  IN  /\ i \in info_traffic'.addresses_last_interval
                      /\ i \in info_traffic'.favorites_last_interval
                            <=> \/ i \in info_traffic.favorites_last_interval
                                \/ /\ existed
                                   /\ info_traffic.map[i + 1].info.is_favorite
                      /\ ~existed =>
                            i \notin info_traffic'.favorites_last_interval
       /\ pc' # pc =>
            \A j \in 1..Len(info_traffic'.map) :
               info_traffic'.map[j].info.is_favorite =
                  IF j <= Len(info_traffic.map)
                  THEN info_traffic.map[j].info.is_favorite
                  ELSE FALSE
      ]_vars

\* a connection was inserted, marked favorite and seen again: index 0 is now
\* featured
C16_Witness ==
    /\ info_traffic.favorites_last_interval = {0}
    /\ info_traffic.addresses_last_interval = {0}
    /\ info_traffic.map[1].info.is_favorite
    /\ info_traffic.map[1].info.transmitted_packets = 2
    /\ \A w \in Workers : pc[w] # "update_map"

\* C17: for every connection key, no step lowers the record's
\* transmitted_bytes or transmitted_packets or moves its final_timestamp
\* backwards, also when a stale worker and a newly started worker update the
\* same aggregator.
C17_RecordsMonotone ==
    [][\A i \in 1..Len(info_traffic.map) :
          /\ i <= Len(info_traffic'.map)
          /\ info_traffic'.map[i].key = info_traffic.map[i].key
          /\ info_traffic'.map[i].info.transmitted_bytes >=
                info_traffic.map[i].info.transmitted_bytes
          /\ info_traffic'.map[i].info.transmitted_packets >=
                info_traffic.map[i].info.transmitted_packets
          /\ info_traffic'.map[i].info.final_timestamp >=
                info_traffic.map[i].info.final_timestamp]_vars

\* position of an entry's kind in the order packets, bytes, favorites
KindRank(e) ==
    CASE IsPacketsEntry(e) -> 1
      [] IsBytesEntry(e) -> 2
      [] IsFavoriteEntry(e) -> 3

\* the sounds of the alert kinds that fire in this state and have a sound
\* configured, in the order packets, bytes, favorites
SoundsDue ==
    LET packets_fire ==
            Fires(notifications.packets_notification.threshold,
                  runtime_data.tot_sent_packets,
                  runtime_data.tot_sent_packets_prev,
                  runtime_data.tot_received_packets,
                  runtime_data.tot_received_packets_prev)
        bytes_fire ==
            Fires(notifications.bytes_notification.threshold,
                  runtime_data.tot_sent_bytes,
                  runtime_data.tot_sent_bytes_prev,
                  runtime_data.tot_received_bytes,
                  runtime_data.tot_received_bytes_prev)
        favorites_fire ==
            /\ notifications.favorite_notification.notify_on_favorite
            /\ runtime_data.favorites_last_interval # {}
        due(fires, sound) == IF fires /\ sound # "None" THEN <<sound>> ELSE <<>>
    IN  due(packets_fire, notifications.packets_notification.sound)
        \o due(bytes_fire, notifications.bytes_notification.sound)
        \o due(favorites_fire, notifications.favorite_notification.sound)

\* C18: the entries one tick pushes come in the order packets, bytes,
\* favorites (so in the log, newest first, every favorite entry of the tick
\* is ahead of its bytes entry and that ahead of its packets entry), and the
\* tick plays the sound of the first kind in that order which fires and has
\* a sound other than None, and no sound when there is no such kind.
C18_PacketsBytesFavorites ==
    [][IsTick =>
         /\ \A i, j \in 1..Len(pushed') :
               i < j => KindRank(pushed'[i]) <= KindRank(pushed'[j])
         /\ \A i, j \in 1..Len(pushed') :
               i < j =>
                  \E a, b \in 1..Len(runtime_data'.logged_notifications) :
                     /\ b < a
                     /\ runtime_data'.logged_notifications[a] = pushed'[i]
                     /\ runtime_data'.logged_notifications[b] = pushed'[j]
         /\ played' =
               IF SoundsDue = <<>> THEN <<>>
               ELSE <<[sound |-> Head(SoundsDue),
                       volume |-> notifications.volume]>>]_vars

\* packets, bytes and two favorites fired in one tick; the packets alert has
\* no sound, so the bytes sound was played
C18_Witness ==
    /\ ticks > 0
    /\ Len(pushed) = 4
    /\ IsPacketsEntry(pushed[1])
    /\ IsBytesEntry(pushed[2])
    /\ IsFavoriteEntry(pushed[3])
    /\ IsFavoriteEntry(pushed[4])
    /\ notifications.packets_notification.sound = "None"
    /\ notifications.favorite_notification.sound = "Swhoosh"
    /\ played = <<[sound |-> "Pop", volume |-> notifications.volume]>>

\* the sum of f[x] over the elements x of S
RECURSIVE SumOver(_, _)
SumOver(f, S) ==
    IF S = {} THEN 0
    ELSE LET x == CHOOSE y \in S : TRUE
         IN  f[x] + SumOver(f, S \ {x})

\* the workers between the two critical sections of a reported packet
BetweenSections ==
    {w \in Workers : pc[w] = "update_totals" /\ loc[w].reported_packet}

\* C19: in every reachable state the transmitted_packets of all records
\* exceed tot_sent_packets + tot_received_packets by the number of workers
\* that have left the first critical section for a reported packet and not
\* yet the second; the counts of app_protocols add up to tot_sent_packets +
\* tot_received_packets; all_packets is at least that sum. For bytes: the
\* transmitted_bytes of all records exceed tot_sent_bytes +
\* tot_received_bytes by the bytes of the packets those workers hold, and
\* all_bytes is at least tot_sent_bytes + tot_received_bytes.
C19_CountersConsistent ==
    LET map == info_traffic.map
        reported_packets ==
            info_traffic.tot_sent_packets + info_traffic.tot_received_packets
        reported_bytes ==
            info_traffic.tot_sent_bytes + info_traffic.tot_received_bytes
    IN  /\ SumOver([i \in DOMAIN map |-> map[i].info.transmitted_packets],
                   DOMAIN map)
              - reported_packets = Cardinality(BetweenSections)
        /\ SumOver([i \in DOMAIN map |-> map[i].info.transmitted_bytes],
                   DOMAIN map)
              - reported_bytes =
                 SumOver([w \in Workers |->
                            IF w \in BetweenSections
                            THEN unwrap(loc[w].packet.ip).payload_len ELSE 0],
                         Workers)
        /\ SumOver(info_traffic.app_protocols, DOMAIN info_traffic.app_protocols)
              = reported_packets
        /\ info_traffic.all_packets >= reported_packets
        /\ info_traffic.all_bytes >= reported_bytes

\* one reported packet went through both critical sections and a packet of
\* a second connection is between them
C19_Witness ==
    /\ BetweenSections # {}
    /\ Len(info_traffic.map) = 2
    /\ info_traffic.tot_sent_packets + info_traffic.tot_received_packets = 1
    /\ DOMAIN info_traffic.app_protocols # {}

\* the indices held by the two interval sets of it
IntervalIndices(it) ==
    it.addresses_last_interval \cup it.favorites_last_interval

\* C20: every index in addresses_last_interval and in
\* favorites_last_interval is a position of the connection map (at least 0
\* and smaller than its length), and the map never loses an entry, so an
\* index taken from an interval set of this aggregator is still a position
\* of its map after any later step, where get_index finds an entry.
C20_IndicesInMap ==
    /\ [](\A i \in IntervalIndices(info_traffic) :
             i >= 0 /\ i < Len(info_traffic.map))
    /\ [][/\ Len(info_traffic'.map) >= Len(info_traffic.map)
          /\ \A i \in IntervalIndices(info_traffic) :
                /\ i < Len(info_traffic'.map)
                /\ info_traffic'.map[i + 1].key = info_traffic.map[i + 1].key
         ]_vars

\* two connections were inserted and both indices are marked: the larger
\* index is the last position of the map
C20_Witness ==
    /\ Len(info_traffic.map) = 2
    /\ info_traffic.addresses_last_interval = {0, 1}
    /\ \A w \in Workers : pc[w] \notin {"update_map", "update_totals"}

====
